---- MODULE Spec2Model ----
(***************************************************************************)
(* The polling ATA/IDE disk driver of q40boot (src/q40/ide.c) together     *)
(* with the tick timer it consumes (src/q40hw.c), as a state machine.      *)
(*                                                                         *)
(* The driver is single threaded.  pc is the position of that thread; the  *)
(* only other actor is the timer interrupt (Tick).  The device is the      *)
(* environment: every read of the status register and every identify page *)
(* is a nondeterministic choice from a small set.                          *)
(***************************************************************************)
EXTENDS Integers, Sequences, FiniteSets, TLC

(***************************************************************************)
(* Bounds of the model.                                                    *)
(***************************************************************************)
\* how many times the clock may be observed to jump while the driver polls
MaxTickBursts == 2
\* the largest FF_VOLUMES configuration explored (MAX_IDE_DISKS == FF_VOLUMES)
MaxVolumes == 2
\* advances of the tick counter between the creation of a deadline and its tests
MaxTimerSteps == 3

(***************************************************************************)
(* Program constants.                                                      *)
(***************************************************************************)
IDE_STATUS_BUSY == 128
IDE_STATUS_READY == 64
IDE_STATUS_DATAREQUEST == 8
IDE_STATUS_ERROR == 1

IDE_CMD_READ_SECTOR == 32
IDE_CMD_WRITE_SECTOR == 48
IDE_CMD_IDENTIFY == 236

ATA_ID_LBA_CAPACITY == 120

\* the per-command sector limit of gogoboot_disk_readwrite
CHUNK_MAX == 256
\* 16-bit words moved by one sector transfer
SECTOR_WORDS == 256
\* faulty variant: the buffer pointer advances by words, not bytes
SECTOR_BYTES_InWords == SECTOR_WORDS

\* bytes the buffer pointer advances per sector
SECTOR_BYTES == 512

\* ticks per second: the build sets 200 or 50 (src/q40hw.c:115-121)
TIMER_HZ == 200
\* the deadline of gogoboot_disk_wait, in seconds
WAIT_SECONDS == 3

(***************************************************************************)
(* C integer arithmetic.  A uint32_t is the pair <<high half, low half>>   *)
(* of its 16-bit halves, so that every intermediate value stays small.     *)
(***************************************************************************)
Half == 65536

RECURSIVE BitAnd(_, _)
BitAnd(a, b) ==
    IF a = 0 \/ b = 0 THEN 0
    ELSE (a % 2) * (b % 2) + 2 * BitAnd(a \div 2, b \div 2)

BitOr(a, b) == a + b - BitAnd(a, b)

U32(hi, lo) == <<hi, lo>>

\* a + b modulo 2^32
Add32(a, b) ==
    LET lo == a[2] + b[2]
    IN  <<(a[1] + b[1] + (lo \div Half)) % Half, lo % Half>>

\* a - b modulo 2^32
Sub32(a, b) ==
    LET lo == a[2] - b[2] + Half
    IN  <<(a[1] - b[1] + Half - 1 + (lo \div Half)) % Half, lo % Half>>

\* a & 0x80000000, as a truth value
SignBit32(a) == a[1] >= 32768

\* a small non-negative int as a uint32_t
ToU32(n) == <<n \div Half, n % Half>>

bswap16(w) == (w % 256) * 256 + (w \div 256)

(***************************************************************************)
(* State.                                                                  *)
(***************************************************************************)
VARIABLES
    \* ---- program state (src/q40/ide.c:68-71, src/q40hw.c:7) ----
    ff_volumes,        \* the build's FF_VOLUMES, fixed for the whole run
    disk_table,        \* disk_table[i] is element i+1 of this sequence
    disk_table_used,
    gogoboot_disk_init_done,
    timer_ticks,       \* uint32_t, advanced by the timer interrupt
    regs,              \* the value last written to each controller register
    \* ---- the thread of control and its locals ----
    pc,
    disknr, buff, sector, sector_count, is_write, nsect,   \* gogoboot_disk_readwrite
    probe_disk, idbuf,                                     \* gogoboot_disk_table_init
    bits, status, timeout, wret, wres,                     \* gogoboot_disk_wait
    \* ---- what a recording register bank and the caller observe ----
    req,               \* the call in progress or last made
    result,            \* what that call returned
    touched,           \* some controller register was read or written by it
    chunks,            \* the device/LBA/count registers programmed per chunk
    cmds,              \* the opcodes written to the command register
    nXfer, lastXfer,   \* sector transfers made, and the last one
    portReads, portWrites,   \* 16-bit accesses of the data port
    nReadyOk, nDrqOk,  \* waits of the call that returned success
    mounts,            \* volume numbers handed to f_mount
    wBitsSeen,         \* a status read of the running wait had the requested bits set
    wLate,             \* status reads of the running wait made after its deadline expired
    wStart,            \* timer_ticks when the running wait began
    bursts,            \* Tick events so far
    info,              \* what the last gogoboot_get_disk_info call returned
    \* ---- the sector round trip ----
    rt_pc, rt_src, rt_disk, rt_dst,
    \* ---- one deadline of the tick timer, from creation to test ----
    tm_pc, tm_dur, tm_elapsed, tm_expired

progVars  == <<ff_volumes, disk_table, disk_table_used, gogoboot_disk_init_done, regs>>
rwVars    == <<disknr, buff, sector, sector_count, is_write, nsect>>
tiVars    == <<probe_disk, idbuf>>
waitVars  == <<bits, status, timeout, wret, wres, wBitsSeen, wLate, wStart>>
recVars   == <<req, result, touched, chunks, cmds, nXfer, lastXfer, portReads,
               portWrites, nReadyOk, nDrqOk, mounts>>
rtVars    == <<rt_pc, rt_src, rt_disk, rt_dst>>
tmVars    == <<tm_pc, tm_dur, tm_elapsed, tm_expired>>
vars      == <<progVars, timer_ticks, pc, rwVars, tiVars, waitVars, recVars, bursts, rtVars,
               info, tmVars>>

(***************************************************************************)
(* The tick timer (src/q40hw.c).                                           *)
(***************************************************************************)
q40_read_timer_ticks == timer_ticks

\* faulty variant: the duration is used as given, neither rounded up nor limited
set_timer_ticks_AsGiven(duration_ticks) == Add32(q40_read_timer_ticks, duration_ticks)

set_timer_ticks(duration_ticks) ==
    LET d == IF duration_ticks = U32(0, 0) THEN U32(0, 1)
             ELSE IF SignBit32(duration_ticks) THEN U32(32767, 65535)
             ELSE duration_ticks
    IN  Add32(q40_read_timer_ticks, d)

\* faulty variant: the operands of the subtraction are exchanged
timer_expired_Swapped(timer) == SignBit32(Sub32(q40_read_timer_ticks, timer))

\* faulty variant: the tick count read when the deadline was made is compared
timer_expired_Stale(timer) == SignBit32(Sub32(timer, wStart))

timer_expired(timer) == SignBit32(Sub32(timer, q40_read_timer_ticks))

\* the header's set_timer_sec: a duration in seconds, in ticks of TIMER_HZ
set_timer_sec(sec) == set_timer_ticks(ToU32(sec * TIMER_HZ))

(***************************************************************************)
(* Pure parts of the driver (src/q40/ide.c).                               *)
(***************************************************************************)
MAX_IDE_DISKS == ff_volumes

\* faulty variant: BUSY is left out of the mask
WaitSuccess_BusyIgnored(st, b) == BitAnd(st, BitOr(IDE_STATUS_ERROR, b)) = b

\* faulty variant: the floating bus patterns 0x00 and 0xFF are not tested
WaitError_NoFloatingBus(st) ==
    BitAnd(st, BitOr(IDE_STATUS_BUSY, IDE_STATUS_ERROR)) = IDE_STATUS_ERROR

\* the two tests of the polling loop of gogoboot_disk_wait
WaitSuccess(st, b) ==
    BitAnd(st, BitOr(BitOr(IDE_STATUS_BUSY, IDE_STATUS_ERROR), b)) = b

WaitError(st) ==
    \/ BitAnd(st, BitOr(IDE_STATUS_BUSY, IDE_STATUS_ERROR)) = IDE_STATUS_ERROR
    \/ st = 0
    \/ st = 255

\* faulty variant: the words are stored as read, without the byte swap
gogoboot_disk_read_sector_data_NoSwap(words) ==
    [k \in 1..(2 * SECTOR_WORDS) |->
        LET w == words[(k + 1) \div 2]
        IN  IF k % 2 = 1 THEN w \div 256 ELSE w % 256]

\* gogoboot_disk_read_sector_data: the 512 buffer bytes stored for the 256 words
\* read from the data port (the CPU is big-endian: high byte first)
gogoboot_disk_read_sector_data(words) ==
    [k \in 1..(2 * SECTOR_WORDS) |->
        LET w == bswap16(words[(k + 1) \div 2])
        IN  IF k % 2 = 1 THEN w \div 256 ELSE w % 256]

\* gogoboot_disk_write_sector_data: the 256 words written to the data port for
\* the 512 bytes of the buffer
gogoboot_disk_write_sector_data(bytes) ==
    [i \in 1..SECTOR_WORDS |-> bswap16(bytes[2 * i - 1] * 256 + bytes[2 * i])]

\* faulty variant: the bit is looked for in the other byte of word 49
LbaSupported_Byte98(buffer) == BitAnd(buffer[98 + 1], 2) # 0

\* buffer[99] & 0x02
LbaSupported(buffer) == BitAnd(buffer[99 + 1], 2) # 0

\* le32_to_cpu(*((uint32_t*)&buffer[ATA_ID_LBA_CAPACITY]))
IdentifySectors(buffer) ==
    U32(buffer[ATA_ID_LBA_CAPACITY + 4] * 256 + buffer[ATA_ID_LBA_CAPACITY + 3],
        buffer[ATA_ID_LBA_CAPACITY + 2] * 256 + buffer[ATA_ID_LBA_CAPACITY + 1])

\* the switch of gogoboot_disk_table_init
DeviceSelect(disk) == IF disk = 0 THEN 224 ELSE 240

\* faulty variant: the index check is off by one
BadDisk_OffByOne(nr) == nr < 0 \/ nr > disk_table_used

\* the index check of gogoboot_disk_readwrite
BadDisk(nr) == nr < 0 \/ nr >= disk_table_used

\* faulty variant: the capacity check is off by one
TableFull_OffByOne == disk_table_used > MAX_IDE_DISKS

\* the capacity check of gogoboot_disk_table_init
TableFull == disk_table_used >= MAX_IDE_DISKS

\* the device register byte of a transfer
\* faulty variant: the top byte of the sector is not masked to four bits
DeviceByte_NoMask(sec, disk) ==
    BitOr(sec[1] \div 256, IF disk = 0 THEN 224 ELSE 240)

DeviceByte(sec, disk) ==
    BitOr(BitAnd(sec[1] \div 256, 15), IF disk = 0 THEN 224 ELSE 240)
LbaHigh(sec) == BitAnd(sec[1], 255)
LbaMid(sec)  == BitAnd(sec[2] \div 256, 255)
LbaLow(sec)  == BitAnd(sec[2], 255)

\* faulty variant: the sector advances by the byte written to the count register
NextSector_ByCountByte(sec, n) == Add32(sec, ToU32(IF n = CHUNK_MAX THEN 0 ELSE n))

\* sector += nsect
NextSector(sec, n) == Add32(sec, ToU32(n))

\* faulty variant: the two opcodes are exchanged
RwCommand_Exchanged(w) == IF w THEN IDE_CMD_READ_SECTOR ELSE IDE_CMD_WRITE_SECTOR

\* is_write ? IDE_CMD_WRITE_SECTOR : IDE_CMD_READ_SECTOR
RwCommand(w) == IF w THEN IDE_CMD_WRITE_SECTOR ELSE IDE_CMD_READ_SECTOR

\* nsect of one loop iteration, and the byte written to the sector count register
ChunkSize(count) == IF count >= CHUNK_MAX THEN CHUNK_MAX ELSE count

\* faulty variant: a chunk of 256 sectors is written as 255
NsectByte_Saturated(n) == IF n > 255 THEN 255 ELSE n

NsectByte(n) == IF n = CHUNK_MAX THEN 0 ELSE n

(***************************************************************************)
(* The environment: what the device and the callers may present.           *)
(***************************************************************************)
\* values the status register may show:
\*   0x00 0xFF floating bus, 0x01 ERR, 0x50 RDY|SKC, 0x58 RDY|SKC|DRQ,
\*   0x80 BSY, 0x81 BSY|ERR, 0xD8 BSY|RDY|SKC|DRQ
StatusValues == {0, 255, 1, 80, 88, 128, 129, 216}

\* the 256 words of an identify page with the given words 49, 60 and 61
IdentifyPage(w49, w60, w61) ==
    [i \in 1..SECTOR_WORDS |->
        IF i = 50 THEN w49 ELSE IF i = 61 THEN w60 ELSE IF i = 62 THEN w61 ELSE 0]

\* a disk of 0x00123456 sectors with LBA (word 49 = 0x2F00), and a device
\* without LBA (word 49 = 0x0D02)
IdentifyPages == {IdentifyPage(12032, 13398, 18), IdentifyPage(3330, 13398, 18)}

\* the arguments callers pass to gogoboot_disk_read
ReadArgs ==
    { [disknr |-> -1, sector |-> U32(0, 0),         count |-> 1],
      [disknr |-> 0,  sector |-> U32(291, 17767),   count |-> 2],    \* 0x01234567
      [disknr |-> 0,  sector |-> U32(4095, 65535),  count |-> 1],    \* 0x0FFFFFFF
      [disknr |-> 0,  sector |-> U32(4096, 0),      count |-> 1],    \* 0x10000000
      [disknr |-> 0,  sector |-> U32(0, 0),         count |-> 0],
      [disknr |-> 1,  sector |-> U32(291, 17767),   count |-> 513],  \* three chunks
      [disknr |-> 2,  sector |-> U32(0, 0),         count |-> 1] }

\* the arguments callers pass to gogoboot_disk_write
WriteArgs ==
    { [disknr |-> 0,  sector |-> U32(0, 65535),     count |-> 2],    \* 0x0000FFFF
      [disknr |-> 0,  sector |-> U32(0, 0),         count |-> -1],
      [disknr |-> 1,  sector |-> U32(65535, 65535), count |-> 2],    \* 0xFFFFFFFF
      [disknr |-> 1,  sector |-> U32(0, 7),         count |-> 1],
      [disknr |-> 2,  sector |-> U32(0, 0),         count |-> 2] }

\* the indices callers pass to gogoboot_get_disk_info
InfoArgs == {-1, 0, 1, 2}

\* how far the tick counter may be seen to advance between two steps of the driver
TickBursts == {1, WAIT_SECONDS * TIMER_HZ}

\* the tick counts at which the machine may reach the disk initialisation:
\* 0, 300 ticks before the counter wraps, and 300 ticks before its sign bit sets
BootTicks == {U32(0, 0), U32(65535, 65236), U32(32767, 65236)}

\* the ticks that may go by between two steps of the polling loop when time is
\* followed in seconds
SecondBursts == {TIMER_HZ, WAIT_SECONDS * TIMER_HZ}

\* the tick counts at which a deadline may be created: 0, the sign bit about to
\* set, the counter about to wrap, and 600 ticks before the wrap
TimerStarts == {U32(0, 0), U32(32767, 65535), U32(65535, 65535), U32(65535, 64936)}

\* the durations asked for: 0, 1, 600, 0x7fffffff, 0x80000000, 0xffffffff
TimerDurations ==
    {U32(0, 0), U32(0, 1), U32(0, 600), U32(32767, 65535), U32(32768, 0),
     U32(65535, 65535)}

\* the ticks that may go by between two looks at a deadline: 1, 2, 600,
\* 0x7fffffff, 0x80000000
TimerSteps == {U32(0, 1), U32(0, 2), U32(0, 600), U32(32767, 65535), U32(32768, 0)}

\* the sectors written and read back by the round trip: byte k is a + k*s mod 256
PatternBytes == {0, 1, 18, 127, 128, 255}
PatternSteps == {0, 1, 7}
Pattern(a, b, s) ==
    [k \in 1..(2 * SECTOR_WORDS) |-> IF k % 2 = 1 THEN (a + k * s) % 256 ELSE (b + k * s) % 256]

(***************************************************************************)
(* Initial state: the driver's statics (src/q40/ide.c:68-71) are zero.     *)
(***************************************************************************)
ZeroDisk == [ctrl |-> -1, disk |-> 0, sectors |-> U32(0, 0), fat_fs_status |-> "ZERO"]
NoXfer   == [write |-> FALSE, off |-> -1, words |-> 0]
NoReq    == [op |-> "none", disknr |-> 0, sector |-> U32(0, 0), count |-> 0]
NoInfo   == [null |-> TRUE, nr |-> -1]
ZeroRegs == [device |-> 0, lbah |-> 0, lbam |-> 0, lbal |-> 0, nsect |-> 0,
             command |-> 0, ctl |-> 0]

DriverStatics ==
    /\ ff_volumes \in 1..MaxVolumes
    /\ disk_table = [i \in 1..ff_volumes |-> ZeroDisk]
    /\ disk_table_used = 0
    /\ gogoboot_disk_init_done = FALSE
    /\ regs = ZeroRegs
    /\ pc = "idle"
    /\ disknr = 0 /\ buff = 0 /\ sector = U32(0, 0) /\ sector_count = 0
    /\ is_write = FALSE /\ nsect = 0
    /\ probe_disk = 0 /\ idbuf = <<>>
    /\ bits = 0 /\ status = 0 /\ timeout = U32(0, 0) /\ wret = "idle" /\ wres = FALSE
    /\ wBitsSeen = FALSE /\ wLate = 0 /\ wStart = U32(0, 0)
    /\ req = NoReq /\ result = "none" /\ touched = FALSE
    /\ chunks = <<>> /\ cmds = <<>> /\ nXfer = 0 /\ lastXfer = NoXfer
    /\ portReads = 0 /\ portWrites = 0 /\ nReadyOk = 0 /\ nDrqOk = 0
    /\ mounts = <<>>
    /\ bursts = 0
    /\ info = NoInfo

DriverInit ==
    /\ DriverStatics
    /\ timer_ticks = U32(0, 0)

RtOff == rt_pc = "off" /\ rt_src = <<>> /\ rt_disk = <<>> /\ rt_dst = <<>>
TmOff == tm_pc = "off" /\ tm_dur = U32(0, 0) /\ tm_elapsed = U32(0, 0) /\ tm_expired = FALSE

Init ==
    /\ DriverInit
    /\ RtOff
    /\ TmOff

(***************************************************************************)
(* Pieces shared by the actions.                                           *)
(***************************************************************************)
\* entry of gogoboot_disk_wait: the throwaway read of the alternate status
\* register and the creation of the deadline; the polling loop follows
StartWait(b, r) ==
    /\ bits' = b
    /\ status' = 0
    /\ timeout' = set_timer_sec(WAIT_SECONDS)
    /\ wret' = r
    /\ wres' = FALSE
    /\ wBitsSeen' = FALSE
    /\ wLate' = 0
    /\ wStart' = q40_read_timer_ticks
    /\ pc' = "w_poll"

\* the locals of gogoboot_disk_wait are dead once its caller has tested the result
WaitGone ==
    /\ bits' = 0 /\ status' = 0 /\ timeout' = U32(0, 0) /\ wret' = "idle"
    /\ wres' = FALSE /\ wBitsSeen' = FALSE /\ wLate' = 0 /\ wStart' = U32(0, 0)

\* the locals of gogoboot_disk_readwrite are dead once it has returned
RwGone ==
    /\ disknr' = 0 /\ buff' = 0 /\ sector' = U32(0, 0) /\ sector_count' = 0
    /\ is_write' = FALSE /\ nsect' = 0

\* a fresh recording for a new call
NewCall(op, a) ==
    /\ req' = [op |-> op, disknr |-> a.disknr, sector |-> a.sector, count |-> a.count]
    /\ chunks' = <<>> /\ cmds' = <<>> /\ nXfer' = 0 /\ lastXfer' = NoXfer
    /\ portReads' = 0 /\ portWrites' = 0 /\ nReadyOk' = 0 /\ nDrqOk' = 0
    /\ info' = NoInfo

\* faulty variant: the result of the wait is ignored
WaitFailed_Ignored == FALSE

\* if(!gogoboot_disk_wait(...))
WaitFailed == ~wres

\* disk_table[nr]
DiskEntry(nr) == IF nr + 1 \in DOMAIN disk_table THEN disk_table[nr + 1] ELSE ZeroDisk

\* faulty variant: the entry before the count is filled in once there is one
TableSlot_Previous == IF disk_table_used > 0 THEN disk_table_used - 1 ELSE disk_table_used

\* the entry gogoboot_disk_table_init fills in
TableSlot == disk_table_used

(***************************************************************************)
(* The timer interrupt: timer_ticks advances while the driver polls.       *)
(***************************************************************************)
Tick ==
    /\ pc \in {"w_poll", "w_timer"}
    /\ bursts < MaxTickBursts
    /\ \E d \in TickBursts : timer_ticks' = Add32(timer_ticks, ToU32(d))
    /\ bursts' = bursts + 1
    /\ UNCHANGED <<progVars, pc, rwVars, tiVars, waitVars, recVars, rtVars, info, tmVars>>

(***************************************************************************)
(* gogoboot_disk_wait (src/q40/ide.c:84-108).                              *)
(***************************************************************************)
\* one pass of the loop body: read the status register and test it
WaitPoll ==
    /\ pc = "w_poll"
    /\ \E st \in StatusValues :
        /\ status' = st
        /\ wBitsSeen' = (wBitsSeen \/ BitAnd(st, bits) = bits)
        /\ wLate' = wLate + (IF timer_expired(timeout) THEN 1 ELSE 0)
        /\ IF WaitSuccess(st, bits)
             THEN wres' = TRUE /\ pc' = wret
             ELSE IF WaitError(st)
                    THEN wres' = FALSE /\ pc' = wret
                    ELSE wres' = wres /\ pc' = "w_timer"
    /\ UNCHANGED <<progVars, timer_ticks, rwVars, tiVars, bits, timeout, wret, wStart,
                   recVars, bursts, rtVars, info, tmVars>>

\* the loop condition: while(!timer_expired(timeout)); the timeout return follows
WaitTimer ==
    /\ pc = "w_timer"
    /\ IF timer_expired(timeout)
         THEN wres' = FALSE /\ pc' = wret
         ELSE wres' = wres /\ pc' = "w_poll"
    /\ UNCHANGED <<progVars, timer_ticks, rwVars, tiVars, bits, status, timeout, wret,
                   wBitsSeen, wLate, wStart, recVars, bursts, rtVars, info, tmVars>>

(***************************************************************************)
(* gogoboot_disk_readwrite (src/q40/ide.c:133-198).                        *)
(***************************************************************************)
\* entry, with the index check
ReadWrite(op, a) ==
    /\ pc = "idle"
    /\ NewCall(op, a)
    /\ touched' = FALSE
    /\ IF BadDisk(a.disknr)
         THEN /\ result' = "fail"
              /\ pc' = "idle"
              /\ UNCHANGED rwVars
         ELSE /\ result' = "pending"
              /\ pc' = "rw_loop"
              /\ disknr' = a.disknr
              /\ buff' = 0
              /\ sector' = a.sector
              /\ sector_count' = a.count
              /\ is_write' = (op = "write")
              /\ nsect' = 0
    /\ UNCHANGED <<progVars, timer_ticks, tiVars, waitVars, mounts, bursts, rtVars, tmVars>>

gogoboot_disk_read == \E a \in ReadArgs : ReadWrite("read", a)

gogoboot_disk_write == \E a \in WriteArgs : ReadWrite("write", a)

\* return false
RwAbort ==
    /\ pc' = "idle"
    /\ result' = "fail"
    /\ RwGone
    /\ WaitGone
    /\ UNCHANGED <<progVars, timer_ticks, tiVars, req, touched, chunks, cmds, nXfer,
                   lastXfer, portReads, portWrites, nReadyOk, nDrqOk, mounts, bursts,
                   rtVars, info, tmVars>>

\* the head of the inner loop, while(nsect > 0), reached with n sectors left
RwNextSector(n) ==
    IF n > 0
      THEN StartWait(IDE_STATUS_DATAREQUEST, "rw_drq_ret")
      ELSE pc' = "rw_loop" /\ WaitGone

\* faulty variant: the loop goes on while the count is not zero
MoreSectors_NotZero == sector_count # 0

\* while(sector_count > 0), sector_count being a signed int
MoreSectors == sector_count > 0

\* while(sector_count > 0): program the device, LBA and count registers of the
\* next chunk and wait for the device to be ready
RwProgram ==
    /\ pc = "rw_loop"
    /\ MoreSectors
    /\ LET disk == DiskEntry(disknr)
           n    == ChunkSize(sector_count)
           w    == [device |-> DeviceByte(sector, disk.disk),
                    lbah   |-> LbaHigh(sector),
                    lbam   |-> LbaMid(sector),
                    lbal   |-> LbaLow(sector),
                    nsect  |-> NsectByte(n),
                    n      |-> n]
       IN  /\ regs' = [regs EXCEPT !.device = w.device, !.lbah = w.lbah,
                                   !.lbam = w.lbam, !.lbal = w.lbal, !.nsect = w.nsect]
           /\ chunks' = Append(chunks, w)
           /\ nsect' = n
           /\ sector_count' = sector_count - n
           /\ sector' = NextSector(sector, n)
    /\ touched' = TRUE
    /\ StartWait(IDE_STATUS_READY, "rw_ready_ret")
    /\ UNCHANGED <<ff_volumes, disk_table, disk_table_used, gogoboot_disk_init_done,
                   timer_ticks, disknr, buff, is_write, tiVars, req, result, cmds,
                   nXfer, lastXfer, portReads, portWrites, nReadyOk, nDrqOk, mounts,
                   bursts, rtVars, info, tmVars>>

\* the loop is over: return true
RwDone ==
    /\ pc = "rw_loop"
    /\ ~MoreSectors
    /\ pc' = "idle"
    /\ result' = "ok"
    /\ RwGone
    /\ UNCHANGED <<progVars, timer_ticks, tiVars, waitVars, req, touched, chunks, cmds,
                   nXfer, lastXfer, portReads, portWrites, nReadyOk, nDrqOk, mounts,
                   bursts, rtVars, info, tmVars>>

\* after the READY wait: give up, or send the command and enter the inner loop
RwReadyRet ==
    /\ pc = "rw_ready_ret"
    /\ IF WaitFailed
         THEN RwAbort
         ELSE /\ LET c == RwCommand(is_write)
                 IN  /\ regs' = [regs EXCEPT !.command = c]
                     /\ cmds' = Append(cmds, c)
              /\ nReadyOk' = nReadyOk + 1
              /\ RwNextSector(nsect)
              /\ UNCHANGED <<ff_volumes, disk_table, disk_table_used,
                             gogoboot_disk_init_done, timer_ticks, rwVars, tiVars, req,
                             result, touched, chunks, nXfer, lastXfer, portReads,
                             portWrites, nDrqOk, mounts, bursts, rtVars, info, tmVars>>

\* after a DATAREQUEST wait: give up, or move one sector and go round the inner loop
RwDrqRet ==
    /\ pc = "rw_drq_ret"
    /\ IF WaitFailed
         THEN RwAbort
         ELSE /\ nDrqOk' = nDrqOk + 1
              /\ nXfer' = nXfer + 1
              /\ lastXfer' = [write |-> is_write, off |-> buff, words |-> SECTOR_WORDS]
              /\ IF is_write
                   THEN portWrites' = portWrites + SECTOR_WORDS /\ portReads' = portReads
                   ELSE portReads' = portReads + SECTOR_WORDS /\ portWrites' = portWrites
              /\ buff' = buff + SECTOR_BYTES
              /\ nsect' = nsect - 1
              /\ RwNextSector(nsect - 1)
              /\ UNCHANGED <<progVars, timer_ticks, disknr, sector, sector_count,
                             is_write, tiVars, req, result, touched, chunks, cmds,
                             nReadyOk, mounts, bursts, rtVars, info, tmVars>>

(***************************************************************************)
(* The registry queries (src/q40/ide.c:128-131, 345-350).                  *)
(***************************************************************************)
gogoboot_disk_get_disk_count == disk_table_used

\* faulty variant: the index equal to the count is let through
NoDiskInfo_OffByOne(nr) == nr < 0 \/ nr > gogoboot_disk_get_disk_count

\* if(nr < 0 || nr >= gogoboot_disk_get_disk_count())
NoDiskInfo(nr) == nr < 0 \/ nr >= gogoboot_disk_get_disk_count

\* the pointer returned: NULL, or the address of disk_table[nr]
gogoboot_get_disk_info(nr) ==
    IF NoDiskInfo(nr) THEN [null |-> TRUE, nr |-> -1] ELSE [null |-> FALSE, nr |-> nr]

\* a call of gogoboot_get_disk_info
DiskInfo ==
    /\ pc = "idle"
    /\ \E nr \in InfoArgs :
          /\ req' = [op |-> "info", disknr |-> nr, sector |-> U32(0, 0), count |-> 0]
          /\ info' = gogoboot_get_disk_info(nr)
    /\ result' = "none"
    /\ touched' = FALSE
    /\ chunks' = <<>> /\ cmds' = <<>> /\ nXfer' = 0 /\ lastXfer' = NoXfer
    /\ portReads' = 0 /\ portWrites' = 0 /\ nReadyOk' = 0 /\ nDrqOk' = 0
    /\ UNCHANGED <<progVars, timer_ticks, pc, rwVars, tiVars, waitVars, mounts, bursts,
                   rtVars, tmVars>>

(***************************************************************************)
(* Initialisation (src/q40/ide.c:73-82, 222-343).                          *)
(***************************************************************************)
\* faulty variant: the controller is not reset
gogoboot_disk_controller_reset_Omitted == regs

\* the registers after gogoboot_disk_controller_reset: the master selected, the
\* reset asserted (0x06) and, 100 ms later, released (0x02)
gogoboot_disk_controller_reset == [regs EXCEPT !.device = 224, !.ctl = 2]

\* faulty variant: the flag is not looked at
AlreadyDone_NotTested == gogoboot_disk_init_done /\ ~gogoboot_disk_init_done

\* if(gogoboot_disk_init_done)
AlreadyDone == gogoboot_disk_init_done

\* gogoboot_disk_init, gogoboot_disk_controller_init up to its loop, and
\* gogoboot_disk_controller_reset
gogoboot_disk_init ==
    /\ pc = "idle"
    /\ NewCall("init", NoReq)
    /\ IF AlreadyDone
         THEN /\ result' = "void"
              /\ touched' = FALSE
              /\ UNCHANGED <<progVars, pc, tiVars>>
         ELSE /\ gogoboot_disk_init_done' = TRUE
              /\ regs' = gogoboot_disk_controller_reset
              /\ touched' = TRUE
              /\ result' = "pending"
              /\ probe_disk' = 0
              /\ idbuf' = <<>>
              /\ pc' = "ti_loop"
              /\ UNCHANGED <<ff_volumes, disk_table, disk_table_used>>
    /\ UNCHANGED <<timer_ticks, rwVars, waitVars, mounts, bursts, rtVars, tmVars>>

\* faulty variant: the first slot that is given up ends the probing
TableInitReturn_StopProbing ==
    /\ probe_disk' = (IF WaitFailed THEN 2 ELSE probe_disk + 1)
    /\ pc' = "ti_loop"
    /\ WaitGone

\* return from gogoboot_disk_table_init: the loop of the controller init goes on
TableInitReturn ==
    /\ probe_disk' = probe_disk + 1
    /\ pc' = "ti_loop"
    /\ WaitGone

\* for(disk=0; disk<2; disk++): select the device and wait for it to be ready
TableInitSelect ==
    /\ pc = "ti_loop"
    /\ probe_disk < 2
    /\ regs' = [regs EXCEPT !.device = DeviceSelect(probe_disk)]
    /\ idbuf' = <<>>
    /\ touched' = TRUE
    /\ StartWait(IDE_STATUS_READY, "ti_ready_ret")
    /\ UNCHANGED <<ff_volumes, disk_table, disk_table_used, gogoboot_disk_init_done,
                   timer_ticks, rwVars, probe_disk, req, result, chunks, cmds, nXfer,
                   lastXfer, portReads, portWrites, nReadyOk, nDrqOk, mounts, bursts,
                   rtVars, info, tmVars>>

\* both slots were probed: the init call returns
ControllerInitDone ==
    /\ pc = "ti_loop"
    /\ ~(probe_disk < 2)
    /\ pc' = "idle"
    /\ result' = "void"
    /\ probe_disk' = 0
    /\ idbuf' = <<>>
    /\ UNCHANGED <<progVars, timer_ticks, rwVars, waitVars, req, touched, chunks, cmds,
                   nXfer, lastXfer, portReads, portWrites, nReadyOk, nDrqOk, mounts,
                   bursts, rtVars, info, tmVars>>

\* after the READY wait: no disk found, or send IDENTIFY and wait for the data
TableInitReadyRet ==
    /\ pc = "ti_ready_ret"
    /\ IF WaitFailed
         THEN /\ TableInitReturn
              /\ UNCHANGED <<regs, cmds, nReadyOk>>
         ELSE /\ regs' = [regs EXCEPT !.command = IDE_CMD_IDENTIFY]
              /\ cmds' = Append(cmds, IDE_CMD_IDENTIFY)
              /\ nReadyOk' = nReadyOk + 1
              /\ StartWait(IDE_STATUS_DATAREQUEST, "ti_drq_ret")
              /\ UNCHANGED probe_disk
    /\ UNCHANGED <<ff_volumes, disk_table, disk_table_used, gogoboot_disk_init_done,
                   timer_ticks, rwVars, idbuf, req, result, touched, chunks, nXfer,
                   lastXfer, portReads, portWrites, nDrqOk, mounts, bursts, rtVars, info, tmVars>>

\* after the DATAREQUEST wait: disk not responding, or read the identify page,
\* check it and enter the disk in the table
TableInitDrqRet ==
    /\ pc = "ti_drq_ret"
    /\ TableInitReturn
    /\ IF WaitFailed
         THEN UNCHANGED <<disk_table, disk_table_used, idbuf, nDrqOk, nXfer, lastXfer,
                          portReads, mounts>>
         ELSE \E page \in IdentifyPages :
                LET buffer == gogoboot_disk_read_sector_data(page)
                IN  /\ idbuf' = buffer
                    /\ nDrqOk' = nDrqOk + 1
                    /\ nXfer' = nXfer + 1
                    /\ lastXfer' = [write |-> FALSE, off |-> 0, words |-> SECTOR_WORDS]
                    /\ portReads' = portReads + SECTOR_WORDS
                    /\ IF ~LbaSupported(buffer) \/ TableFull
                         THEN UNCHANGED <<disk_table, disk_table_used, mounts>>
                         ELSE /\ disk_table' =
                                    [disk_table EXCEPT ![TableSlot + 1] =
                                        [ctrl |-> 0, disk |-> probe_disk,
                                         sectors |-> IdentifySectors(buffer),
                                         fat_fs_status |-> "STA_NOINIT"]]
                              /\ mounts' = Append(mounts, disk_table_used)
                              /\ disk_table_used' = disk_table_used + 1
    /\ UNCHANGED <<ff_volumes, gogoboot_disk_init_done, regs, timer_ticks, rwVars, req,
                   result, touched, chunks, cmds, portWrites, nReadyOk, bursts, rtVars, info, tmVars>>

(***************************************************************************)
(* The driver: every call a caller may make, every step of the thread, and *)
(* the timer interrupt.                                                    *)
(***************************************************************************)
Next ==
    \/ gogoboot_disk_init
    \/ TableInitSelect
    \/ TableInitReadyRet
    \/ TableInitDrqRet
    \/ ControllerInitDone
    \/ gogoboot_disk_read
    \/ gogoboot_disk_write
    \/ RwProgram
    \/ RwReadyRet
    \/ RwDrqRet
    \/ RwDone
    \/ DiskInfo
    \/ WaitPoll
    \/ WaitTimer
    \/ Tick

Spec == Init /\ [][Next]_vars

(***************************************************************************)
(* The initialisation with a tick counter that keeps advancing.  The       *)
(* polling loop is a busy loop of one thread and the timer interrupt keeps *)
(* firing, so each of them goes on when it can.  Ticks that come after the *)
(* deadline has passed are left out: the loop runs many times between two  *)
(* interrupts, so its next deadline test comes long before 2^31 more ticks *)
(* have gone by.                                                           *)
(***************************************************************************)
\* the deadline of the running wait has not passed
TimeRemains == ~SignBit32(Sub32(timeout, timer_ticks))

TimerInterrupt ==
    /\ pc \in {"w_poll", "w_timer"}
    /\ TimeRemains
    /\ \E d \in SecondBursts : timer_ticks' = Add32(timer_ticks, ToU32(d))
    /\ UNCHANGED <<progVars, pc, rwVars, tiVars, waitVars, recVars, bursts, rtVars, info,
                   tmVars>>

InitFair ==
    /\ DriverStatics
    /\ timer_ticks \in BootTicks
    /\ RtOff
    /\ TmOff

NextFair ==
    \/ gogoboot_disk_init
    \/ TableInitSelect
    \/ TableInitReadyRet
    \/ TableInitDrqRet
    \/ ControllerInitDone
    \/ WaitPoll
    \/ WaitTimer
    \/ TimerInterrupt

SpecFair ==
    /\ InitFair
    /\ [][NextFair]_vars
    /\ WF_vars(WaitPoll)
    /\ WF_vars(WaitTimer)
    /\ WF_vars(TimerInterrupt)

(***************************************************************************)
(* One deadline of the tick timer (src/q40hw.c:82-98): it is created with  *)
(* set_timer_ticks, the tick counter advances, and timer_expired is asked. *)
(* tm_elapsed counts the ticks since the creation without wrapping; the    *)
(* deadline is followed for less than one full turn of the counter.        *)
(***************************************************************************)
\* a + b of two 32-bit pairs, not reduced modulo 2^32
Sum32(a, b) ==
    LET lo == a[2] + b[2]
    IN  <<a[1] + b[1] + (lo \div Half), lo % Half>>

InitTimer ==
    /\ DriverStatics
    /\ timer_ticks \in TimerStarts
    /\ RtOff
    /\ tm_pc = "new" /\ tm_dur \in TimerDurations /\ tm_elapsed = U32(0, 0)
    /\ tm_expired = FALSE

\* timeout = set_timer_ticks(duration)
TmSet ==
    /\ tm_pc = "new"
    /\ timeout' = set_timer_ticks(tm_dur)
    /\ tm_pc' = "set"
    /\ UNCHANGED <<progVars, timer_ticks, pc, rwVars, tiVars, bits, status, wret, wres,
                   wBitsSeen, wLate, wStart, recVars, bursts, rtVars, info, tm_dur,
                   tm_elapsed, tm_expired>>

\* the timer interrupt, some ticks at once
TmTick ==
    /\ tm_pc \in {"set", "tested"}
    /\ bursts < MaxTimerSteps
    /\ \E e \in TimerSteps :
          /\ Sum32(tm_elapsed, e)[1] < Half
          /\ timer_ticks' = Add32(timer_ticks, e)
          /\ tm_elapsed' = Sum32(tm_elapsed, e)
    /\ bursts' = bursts + 1
    /\ tm_pc' = "set"
    /\ UNCHANGED <<progVars, pc, rwVars, tiVars, waitVars, recVars, rtVars, info, tm_dur,
                   tm_expired>>

\* timer_expired(timeout); tm_pc is "tested" while tm_expired is its answer for
\* the present tick count
TmTest ==
    /\ tm_pc \in {"set", "tested"}
    /\ tm_expired' = timer_expired(timeout)
    /\ tm_pc' = "tested"
    /\ UNCHANGED <<progVars, timer_ticks, pc, rwVars, tiVars, waitVars, recVars, bursts,
                   rtVars, info, tm_dur, tm_elapsed>>

NextTimer == TmSet \/ TmTick \/ TmTest

SpecTimer == InitTimer /\ [][NextTimer]_vars

(***************************************************************************)
(* The sector round trip: one sector is written with                       *)
(* gogoboot_disk_write_sector_data to a device that stores the words it    *)
(* receives on the data port, and read back from it with                   *)
(* gogoboot_disk_read_sector_data.                                         *)
(***************************************************************************)
InitRT ==
    /\ DriverInit
    /\ rt_pc = "src"
    /\ rt_src \in {Pattern(a, b, st) : a \in PatternBytes, b \in PatternBytes,
                                       st \in PatternSteps}
    /\ rt_disk = <<>>
    /\ rt_dst = <<>>
    /\ TmOff

RtWrite ==
    /\ rt_pc = "src"
    /\ rt_disk' = gogoboot_disk_write_sector_data(rt_src)
    /\ rt_pc' = "stored"
    /\ UNCHANGED <<progVars, timer_ticks, pc, rwVars, tiVars, waitVars, recVars, bursts,
                   rt_src, rt_dst, info, tmVars>>

RtRead ==
    /\ rt_pc = "stored"
    /\ rt_dst' = gogoboot_disk_read_sector_data(rt_disk)
    /\ rt_pc' = "read"
    /\ UNCHANGED <<progVars, timer_ticks, pc, rwVars, tiVars, waitVars, recVars, bursts,
                   rt_src, rt_disk, info, tmVars>>

NextRT == RtWrite \/ RtRead

SpecRT == InitRT /\ [][NextRT]_vars

(***************************************************************************)
(* Properties.                                                             *)
(***************************************************************************)
RwOps == {"read", "write"}

\* a read or write call has returned
RwReturned == pc = "idle" /\ req.op \in RwOps

RECURSIVE SumN(_)
SumN(cs) == IF cs = <<>> THEN 0 ELSE cs[1].n + SumN(Tail(cs))

\* the LBA a chunk's device and LBA registers hold, as a 32-bit pair
ChunkLba(c) == U32((c.device % 16) * 256 + c.lbah, c.lbam * 256 + c.lbal)

\* start + n as an unbounded number, in the same pair form
Plus(start, n) == <<start[1] + ((start[2] + n) \div Half), (start[2] + n) % Half>>

\* the chunks programmed are 1..256 sectors each and lie end to end from the start sector
ChunksContiguous ==
    \A i \in 1..Len(chunks) :
        /\ chunks[i].n >= 1
        /\ chunks[i].n <= 256
        /\ ChunkLba(chunks[i]) = Plus(req.sector, SumN(SubSeq(chunks, 1, i - 1)))

\* start + count <= 2^28: the whole request lies in the range 28 bits address
InLba28 ==
    LET e == Plus(req.sector, req.count)
    IN  e[1] < 4096 \/ e = <<4096, 0>>

\* C1, as claimed: for every start sector and every count N >= 1, a successful
\* read or write programs chunks of at most 256 sectors whose sizes sum to N and
\* whose register LBAs cover [start, start+N) end to end.
C1_AnyStart ==
    (RwReturned /\ result = "ok" /\ req.count >= 1)
        => (SumN(chunks) = req.count /\ ChunksContiguous)

\* C1, amended: the same for every request with start + N <= 2^28, the sectors
\* the 28 bits of the device and LBA registers can address.
C1_ChunksCoverRequest ==
    (RwReturned /\ result = "ok" /\ req.count >= 1 /\ InLba28)
        => (SumN(chunks) = req.count /\ ChunksContiguous)

C1_Witness ==
    /\ RwReturned /\ result = "ok" /\ req.count = 513 /\ InLba28
    /\ Len(chunks) = 3

\* C2: a read or write with a disk index below 0 or not below the disk count
\* returns failure and accesses no controller register.
C2_BadIndexNoAccess ==
    (req.op \in RwOps /\ (req.disknr < 0 \/ req.disknr >= disk_table_used))
        => /\ pc = "idle"
           /\ result = "fail"
           /\ ~touched
           /\ chunks = <<>> /\ cmds = <<>>
           /\ portReads = 0 /\ portWrites = 0

C2_Witness ==
    /\ RwReturned /\ req.disknr = disk_table_used /\ disk_table_used > 0
    /\ result = "fail"

\* C3: the first failed wait of a read or write ends the call at once with
\* failure: no register is written, no command is issued and no sector is moved
\* after it, and no further wait is started.  A three chunk request whose first
\* READY wait succeeds and whose first DATAREQUEST wait fails returns failure
\* with exactly one command written.
C3_ThreeChunkCase ==
    (RwReturned /\ req.count > 2 * 256 /\ req.count <= 3 * 256
                /\ req.disknr >= 0 /\ req.disknr < disk_table_used
                /\ nReadyOk >= 1 /\ nDrqOk = 0)
        => (result = "fail" /\ Len(cmds) = 1 /\ Len(chunks) = 1 /\ nXfer = 0)

C3_FailedWaitAborts ==
    /\ []C3_ThreeChunkCase
    /\ [][(pc \in {"rw_ready_ret", "rw_drq_ret"} /\ ~wres)
            => /\ pc' = "idle"
               /\ result' = "fail"
               /\ UNCHANGED <<regs, chunks, cmds, nXfer, lastXfer, portReads,
                              portWrites, nReadyOk, nDrqOk>>]_vars

C3_Witness ==
    /\ RwReturned /\ req.count = 513 /\ result = "fail"
    /\ nReadyOk = 1 /\ nDrqOk = 0 /\ Len(cmds) = 1

\* C4: while a read or write runs, the k-th sector transfer (k = 0, 1, ...) is in
\* the direction of the call, makes 256 data port accesses, uses the buffer
\* bytes from 512*k and follows a DATAREQUEST wait of its own; when the call
\* returns success for N >= 1, exactly N transfers were made.
C4_TransfersOnSuccess ==
    (req.op \in RwOps) =>
        /\ nDrqOk = nXfer
        /\ IF req.op = "write"
             THEN portReads = 0 /\ portWrites = 256 * nXfer
             ELSE portWrites = 0 /\ portReads = 256 * nXfer
        /\ (nXfer > 0) =>
              /\ lastXfer.write = (req.op = "write")
              /\ lastXfer.words = 256
              /\ lastXfer.off = 512 * (nXfer - 1)
        /\ (pc = "idle" /\ result = "ok" /\ req.count >= 1) => nXfer = req.count

C4_Witness ==
    /\ RwReturned /\ result = "ok" /\ req.count = 513 /\ nXfer = 513
    /\ lastXfer.off = 512 * 512

\* C5: a sector written and read back is unchanged, byte for byte.
C5_RoundTrip == (rt_pc = "read") => (rt_dst = rt_src)

C5_Witness ==
    /\ rt_pc = "read"
    /\ rt_src[1] # rt_src[2]
    /\ rt_disk[1] = rt_src[2] * 256 + rt_src[1]

\* positions at which gogoboot_disk_wait has just returned to its caller
RetPcs == {"rw_ready_ret", "rw_drq_ret", "ti_ready_ret", "ti_drq_ret"}

\* ticks since the running wait began (fewer than 2^31 in every run explored)
Elapsed == Sub32(timer_ticks, wStart)

\* the tick counter has reached the deadline the running wait created when it
\* began, and that deadline lay 3 seconds of ticks after its beginning
DeadlineReached ==
    /\ ~SignBit32(Sub32(timer_ticks, timeout))
    /\ timeout = Add32(wStart, U32(0, 3 * TIMER_HZ))
    /\ Elapsed[1] > 0 \/ Elapsed[2] >= 3 * TIMER_HZ

\* C6, as claimed: a wait whose status reads never had the requested bits set
\* returns failure, not before 3 seconds of ticks have passed since it began and
\* after at most one status read made past the deadline.
C6_NeverAssertedTimesOut ==
    (pc \in RetPcs /\ ~wBitsSeen)
        => (~wres /\ DeadlineReached /\ wLate <= 1)

\* C6, amended: a wait whose status reads never had the requested bits set and
\* never showed an error status (ERROR with BUSY clear, 0x00 or 0xFF) returns
\* failure, not before 3 seconds of ticks have passed since it began and after
\* at most one status read made past the deadline.
C6_TimeoutAtDeadline ==
    /\ (pc \in RetPcs /\ ~wBitsSeen
          /\ ~(status % 2 = 1 /\ status < 128) /\ status # 0 /\ status # 255)
        => (~wres /\ DeadlineReached /\ wLate <= 1)
    /\ (pc \in {"w_poll", "w_timer"}) => wLate <= 1

C6_Witness ==
    /\ pc \in RetPcs /\ ~wBitsSeen /\ status = 128 /\ ~wres
    /\ wLate = 1
    /\ Elapsed = U32(0, 3 * TIMER_HZ + 1)

\* the identify page in the buffer has bit 1 of byte 99 set
PageHasLba(buffer) == (buffer[100] \div 2) % 2 = 1

\* C7: a device whose identify page has bit 1 of byte 99 clear is not entered in
\* the disk table: table and count stay as they were and no mount is requested.
C7_NoLbaRejected ==
    [][(pc = "ti_drq_ret" /\ wres /\ ~PageHasLba(idbuf'))
          => UNCHANGED <<disk_table, disk_table_used, mounts>>]_vars

C7_Witness ==
    /\ pc = "ti_loop" /\ probe_disk = 2
    /\ idbuf # <<>> /\ ~PageHasLba(idbuf)
    /\ disk_table_used = 1 /\ disk_table[1].disk = 0

\* C8: a probe given up at its READY wait or at its DATAREQUEST wait leaves the
\* disk table, the count and the mounts as they were and the loop goes on with
\* the next slot; from the loop the slave is probed after the master, and after
\* both slots the init call returns, whatever was found.
C8_ProbeFailuresSoft ==
    /\ [][(pc \in {"ti_ready_ret", "ti_drq_ret"} /\ ~wres)
            => /\ UNCHANGED <<disk_table, disk_table_used, mounts>>
               /\ pc' = "ti_loop"
               /\ probe_disk' = probe_disk + 1]_vars
    /\ [][(pc = "ti_loop" /\ probe_disk = 1)
            => (pc' = "w_poll" /\ wret' = "ti_ready_ret" /\ regs'.device = 240)]_vars
    /\ [][(pc = "ti_loop" /\ probe_disk = 2)
            => (pc' = "idle" /\ result' = "void"
                  /\ UNCHANGED <<disk_table, disk_table_used, mounts>>)]_vars

C8_Witness ==
    /\ pc = "idle" /\ req.op = "init" /\ result = "void"
    /\ disk_table_used = 0
    /\ nReadyOk = 1 /\ nDrqOk = 0 /\ Len(cmds) = 1

\* C9: the disk count stays within 0..MAX_IDE_DISKS, and a device identified
\* while the table is full changes neither table nor count and is not mounted.
C9_CountBounded ==
    /\ [](disk_table_used >= 0 /\ disk_table_used <= ff_volumes
            /\ Len(disk_table) = ff_volumes)
    /\ [][(pc = "ti_drq_ret" /\ wres /\ PageHasLba(idbuf')
              /\ disk_table_used >= ff_volumes)
            => UNCHANGED <<disk_table, disk_table_used, mounts>>]_vars

C9_Witness ==
    /\ pc = "ti_loop" /\ probe_disk = 2
    /\ idbuf # <<>> /\ PageHasLba(idbuf)
    /\ ff_volumes = 1 /\ disk_table_used = 1 /\ disk_table[1].disk = 0
    /\ mounts = <<0>>

\* C10: the disk count never decreases, an entry below the count never changes
\* its controller, device number or capacity, and no step of a read or write
\* call changes the table or the count.
C10_RegistryStable ==
    [][/\ disk_table_used' >= disk_table_used
       /\ \A i \in 1..disk_table_used :
             /\ i <= Len(disk_table')
             /\ disk_table'[i].ctrl = disk_table[i].ctrl
             /\ disk_table'[i].disk = disk_table[i].disk
             /\ disk_table'[i].sectors = disk_table[i].sectors
       /\ (req'.op \in RwOps) => UNCHANGED <<disk_table, disk_table_used>>]_vars

C10_Witness ==
    /\ pc = "idle" /\ req.op = "init" /\ ~touched
    /\ disk_table_used = 2
    /\ disk_table[1].disk = 0 /\ disk_table[2].disk = 1

\* C11: gogoboot_get_disk_info returns NULL exactly when the index is below 0 or
\* not below the disk count; otherwise it returns the table entry at that index,
\* which is the entry that was registered index-th and mounted as volume index.
C11_InfoByIndex ==
    (req.op = "info") =>
        /\ info.null <=> (req.disknr < 0 \/ req.disknr >= disk_table_used)
        /\ ~info.null =>
              /\ info.nr = req.disknr
              /\ info.nr + 1 \in DOMAIN disk_table
              /\ disk_table[info.nr + 1].ctrl = 0
              /\ disk_table[info.nr + 1].fat_fs_status = "STA_NOINIT"
              /\ mounts[info.nr + 1] = info.nr

C11_Witness ==
    /\ req.op = "info" /\ req.disknr = 1 /\ disk_table_used = 2
    /\ ~info.null /\ disk_table[info.nr + 1].disk = 1

\* bit b (a power of two) of the status byte st is set
StatusBit(st, b) == (st \div b) % 2 = 1

\* the status byte has the requested bit set and BUSY and ERROR clear
StatusGood(st, b) ==
    StatusBit(st, b) /\ ~StatusBit(st, 128) /\ ~StatusBit(st, 1)

\* the bit a wait asks for: READY after a device select, DATAREQUEST after a command
RequestedBit(ret) == IF ret \in {"rw_ready_ret", "ti_ready_ret"} THEN 64 ELSE 8

\* C12: a wait returns success only if the status it read last has the
\* requested bit set and BUSY and ERROR clear, and the first status read that
\* is so makes it return success; the READY waits ask for bit 0x40 and the
\* DATAREQUEST waits for bit 0x08 and are judged by the same test.
C12_SuccessOnGoodStatus ==
    /\ []((pc \in RetPcs) =>
            /\ bits = RequestedBit(pc)
            /\ wres <=> StatusGood(status, bits))
    /\ []((pc \in {"w_poll", "w_timer"}) => (bits = RequestedBit(wret) /\ ~wres))
    /\ []((pc = "w_timer") => ~StatusGood(status, bits))
    /\ [][(pc = "w_poll" /\ StatusGood(status', bits))
            => (pc' = wret /\ wres' /\ bits' = bits)]_vars

C12_Witness ==
    /\ pc = "rw_drq_ret" /\ wres /\ bits = 8 /\ status = 88
    /\ Elapsed = U32(0, 2)

\* the status byte shows ERROR with BUSY clear, or a floating bus
StatusBad(st) ==
    \/ (StatusBit(st, 1) /\ ~StatusBit(st, 128))
    \/ st = 0
    \/ st = 255

\* a step of the polling loop, not of the timer interrupt
WaitStep == pc \in {"w_poll", "w_timer"} /\ UNCHANGED timer_ticks

\* C13: the first status read that shows ERROR with BUSY clear, or 0x00 or
\* 0xFF, makes the wait return failure at once, however much time remains, and
\* a wait that returned failure reads the status no more; any other status that
\* is not a success (BUSY with ERROR among them) does not end the wait: the
\* loop goes to its deadline test and, the deadline not passed, polls again.
C13_ErrorStatusFailsAtOnce ==
    /\ [][(WaitStep /\ pc = "w_poll" /\ StatusBad(status'))
            => (pc' = wret /\ ~wres' /\ UNCHANGED timeout)]_vars
    /\ []((pc \in RetPcs /\ StatusBad(status)) => ~wres)
    /\ [][(pc \in RetPcs /\ ~wres) => pc' \notin {"w_poll", "w_timer"}]_vars
    /\ [][(WaitStep /\ pc = "w_poll" /\ ~StatusBad(status')
                    /\ ~StatusGood(status', bits))
            => (pc' = "w_timer" /\ UNCHANGED wres)]_vars
    /\ [][(WaitStep /\ pc = "w_timer" /\ TimeRemains) => pc' = "w_poll"]_vars

C13_Witness ==
    /\ pc = "rw_drq_ret" /\ status = 255 /\ ~wres
    /\ Elapsed = U32(0, 1)

\* C14: while the tick counter keeps advancing every wait returns, whatever
\* status values it reads, a status that stays BUSY among them; and a wait that
\* returns after a status that is neither a success nor an error returns
\* failure with its deadline passed.
C14_WaitTerminates ==
    /\ (pc \in {"w_poll", "w_timer"}) ~> (pc \in RetPcs)
    /\ []((pc \in RetPcs /\ ~StatusGood(status, bits) /\ ~StatusBad(status))
            => (~wres /\ ~TimeRemains))

C14_Witness ==
    /\ pc = "ti_drq_ret" /\ status = 128 /\ ~wres /\ ~wBitsSeen
    /\ wStart = U32(65535, 65436)
    /\ timer_ticks = U32(0, 700)

\* the sector at which chunk i of the running call begins, modulo 2^32
ChunkSector(i) == Add32(req.sector, ToU32(SumN(SubSeq(chunks, 1, i - 1))))

\* 0xE0 for the master, 0xF0 for the slave
SelectBase(disk) == IF disk = 0 THEN 224 ELSE 240

\* the wait in progress, or just returned, belongs to the identification
Probing == pc \in {"ti_ready_ret", "ti_drq_ret"}
              \/ (pc \in {"w_poll", "w_timer"} /\ wret \in {"ti_ready_ret", "ti_drq_ret"})

\* C15: the device register, once written, holds 0xE0 | n or 0xF0 | n with n in
\* 0..15: 0xE0 after the reset, 0xE0 or 0xF0 for the slot being probed, and for
\* every chunk of a transfer at sector s the base of the disk's device number
\* plus bits 27-24 of s, with bits 23-16, 15-8 and 7-0 of s in the LBA high, mid
\* and low registers; sector 0x01234567 gives 0xE1 on the master and 0xF1 on
\* the slave.
C15_DeviceSelectEncoding ==
    /\ regs.device = 0 \/ regs.device \in 224..255
    /\ (regs.device = 0) => (~gogoboot_disk_init_done /\ ~touched)
    /\ (pc = "ti_loop" /\ probe_disk = 0) => regs.device = 224
    /\ Probing => regs.device = SelectBase(probe_disk)
    /\ (req.op \in RwOps) =>
          \A i \in 1..Len(chunks) :
              LET s == ChunkSector(i)
                  c == chunks[i]
              IN  /\ c.device = SelectBase(disk_table[req.disknr + 1].disk)
                                    + ((s[1] \div 256) % 16)
                  /\ c.lbah = s[1] % 256
                  /\ c.lbam = s[2] \div 256
                  /\ c.lbal = s[2] % 256
                  /\ (i = Len(chunks)) =>
                        (regs.device = c.device /\ regs.lbah = c.lbah
                           /\ regs.lbam = c.lbam /\ regs.lbal = c.lbal)
    /\ (req.op \in RwOps /\ req.sector = U32(291, 17767) /\ chunks # <<>>) =>
          /\ chunks[1].device = (IF disk_table[req.disknr + 1].disk = 0 THEN 225 ELSE 241)
          /\ chunks[1].lbah = 35 /\ chunks[1].lbam = 69 /\ chunks[1].lbal = 103

C15_Witness ==
    /\ req.op = "read" /\ req.sector = U32(291, 17767) /\ Len(chunks) = 3
    /\ disk_table[req.disknr + 1].disk = 1
    /\ chunks[1].device = 241
    /\ chunks[3].lbam = 71
    /\ regs.device = 241

\* the number of sectors a value of the sector count register stands for
Denoted(v) == IF v = 0 THEN 256 ELSE v

RECURSIVE SumDenoted(_)
SumDenoted(cs) == IF cs = <<>> THEN 0 ELSE Denoted(cs[1].nsect) + SumDenoted(Tail(cs))

\* min(a, b)
Min(a, b) == IF a <= b THEN a ELSE b

\* C16: for every chunk the byte written to the sector count register is the
\* chunk size modulo 256, the chunk size being min(remaining, 256): 0 exactly
\* for a chunk of 256 sectors and the size itself, 1..255, otherwise; the inner
\* loop is set up for as many sector transfers as that byte denotes (0 meaning
\* 256): transfers made plus transfers still to make equal the sectors denoted
\* by the bytes written so far, and a call that returns success has made them all.
C16_SectorCountByte ==
    (req.op \in RwOps) =>
        /\ \A i \in 1..Len(chunks) :
              LET c == chunks[i]
                  remaining == req.count - SumN(SubSeq(chunks, 1, i - 1))
              IN  /\ c.n = Min(remaining, 256)
                  /\ c.n \in 1..256
                  /\ c.nsect = c.n % 256
                  /\ c.nsect \in 0..255
                  /\ (c.nsect = 0) <=> (c.n = 256)
                  /\ (c.nsect # 0) => (c.nsect = c.n /\ c.n \in 1..255)
                  /\ (i = Len(chunks)) => regs.nsect = c.nsect
        /\ (pc # "idle") => nXfer + nsect = SumDenoted(chunks)
        /\ (pc = "rw_loop" \/ (pc = "idle" /\ result = "ok")) => nXfer = SumDenoted(chunks)

C16_Witness ==
    /\ RwReturned /\ result = "ok" /\ req.count = 513
    /\ Len(chunks) = 3
    /\ chunks[1].nsect = 0 /\ chunks[2].nsect = 0 /\ chunks[3].nsect = 1
    /\ nXfer = 513 /\ regs.nsect = 1

\* the step accesses the data port
PortAccess == portReads' # portReads \/ portWrites' # portWrites

\* C17: in a read or write call the device, LBA and count registers of a chunk
\* are written, every earlier chunk having had its command, and the READY wait
\* follows; the command register is written only on return of that READY wait
\* with success, the chunk's registers being as they were written; the opcode
\* is 0x20 in a read call and 0x30 in a write call, and no other; the data port
\* is accessed only when the chunk last programmed has had its command.
C17_ChunkOrder ==
    /\ []((req.op \in RwOps) =>
            /\ \A i \in 1..Len(cmds) : cmds[i] = (IF req.op = "write" THEN 48 ELSE 32)
            /\ Len(cmds) = nReadyOk
            /\ Len(cmds) <= Len(chunks) /\ Len(chunks) <= Len(cmds) + 1
            /\ (Len(cmds) = 0) => (portReads = 0 /\ portWrites = 0)
            /\ (cmds # <<>>) => regs.command = cmds[Len(cmds)])
    /\ [][(req'.op \in RwOps /\ chunks' # chunks /\ chunks' # <<>>)
            => /\ chunks' = Append(chunks, chunks'[Len(chunks')])
               /\ Len(cmds) = Len(chunks)
               /\ UNCHANGED <<cmds, portReads, portWrites>>
               /\ regs'.command = regs.command
               /\ pc' = "w_poll" /\ bits' = 64 /\ wret' = "rw_ready_ret"]_vars
    /\ [][(req'.op \in RwOps /\ cmds' # cmds /\ cmds' # <<>>)
            => /\ pc = "rw_ready_ret" /\ wres /\ bits = 64
               /\ Len(cmds') = Len(chunks)
               /\ UNCHANGED <<chunks, portReads, portWrites>>
               /\ regs'.device = chunks[Len(chunks)].device
               /\ regs'.lbah = chunks[Len(chunks)].lbah
               /\ regs'.lbam = chunks[Len(chunks)].lbam
               /\ regs'.lbal = chunks[Len(chunks)].lbal
               /\ regs'.nsect = chunks[Len(chunks)].nsect]_vars
    /\ [][(req'.op \in RwOps /\ PortAccess /\ pc # "idle")
            => /\ pc = "rw_drq_ret" /\ wres /\ bits = 8
               /\ Len(cmds) = Len(chunks) /\ Len(cmds) >= 1
               /\ UNCHANGED <<regs, cmds, chunks>>]_vars

C17_Witness ==
    /\ RwReturned /\ req.op = "write" /\ result = "ok"
    /\ cmds = <<48>> /\ Len(chunks) = 1
    /\ nXfer = 2 /\ portWrites = 512 /\ regs.command = 48

\* C18: the controller is reset before a slot is probed (the control register,
\* which only the reset writes, holds 0x02 throughout the probing); the slots
\* are probed in the order master, slave; a probe writes the device register
\* and then waits for READY; IDENTIFY is written only on return of that wait
\* with success; the 256 words of the identify page are read from the data
\* port only on return of the DATAREQUEST wait with success; and a disk is
\* entered in the table only in the step that has read its identify page.
C18_IdentifyOrder ==
    /\ []((Probing \/ pc = "ti_loop") =>
            /\ gogoboot_disk_init_done /\ regs.ctl = 2
            /\ req.op = "init"
            /\ probe_disk \in 0..2
            /\ Len(cmds) = nReadyOk /\ nXfer = nDrqOk /\ portReads = 256 * nXfer
            /\ portWrites = 0
            /\ disk_table_used <= nXfer /\ nXfer <= Len(cmds)
            /\ Len(cmds) <= probe_disk + (IF pc = "ti_loop" THEN 0 ELSE 1)
            /\ \A i \in 1..Len(cmds) : cmds[i] = 236)
    /\ [][(pc = "idle" /\ pc' = "ti_loop")
            => (probe_disk' = 0 /\ regs'.ctl = 2 /\ regs'.device = 224 /\ cmds' = <<>>
                  /\ portReads' = 0 /\ UNCHANGED <<disk_table, disk_table_used>>)]_vars
    /\ [][(pc = "ti_loop" /\ pc' # "ti_loop")
            => \/ (probe_disk = 2 /\ pc' = "idle")
               \/ /\ probe_disk \in {0, 1}
                  /\ regs'.device = SelectBase(probe_disk)
                  /\ pc' = "w_poll" /\ bits' = 64 /\ wret' = "ti_ready_ret"
                  /\ UNCHANGED <<probe_disk, cmds, portReads, disk_table, disk_table_used>>
                  /\ regs'.command = regs.command]_vars
    /\ [][(Probing /\ probe_disk' # probe_disk) => probe_disk' = probe_disk + 1]_vars
    /\ [][(req'.op = "init" /\ cmds' # cmds /\ cmds' # <<>>)
            => /\ pc = "ti_ready_ret" /\ wres /\ bits = 64
               /\ cmds' = Append(cmds, 236)
               /\ regs'.command = 236
               /\ regs'.device = SelectBase(probe_disk)
               /\ pc' = "w_poll" /\ bits' = 8 /\ wret' = "ti_drq_ret"
               /\ UNCHANGED <<portReads, disk_table, disk_table_used>>]_vars
    /\ [][(req'.op = "init" /\ PortAccess /\ pc # "idle")
            => /\ pc = "ti_drq_ret" /\ wres /\ bits = 8
               /\ regs.command = 236 /\ cmds # <<>>
               /\ portReads' = portReads + 256
               /\ idbuf' # <<>>]_vars
    /\ [][(disk_table_used' # disk_table_used \/ disk_table' # disk_table)
            => /\ pc = "ti_drq_ret" /\ wres
               /\ portReads' = portReads + 256
               /\ PageHasLba(idbuf')
               /\ disk_table_used' = disk_table_used + 1
               /\ disk_table'[disk_table_used'].disk = probe_disk
               /\ disk_table'[disk_table_used'].sectors = IdentifySectors(idbuf')]_vars

C18_Witness ==
    /\ pc = "idle" /\ req.op = "init" /\ result = "void"
    /\ regs.ctl = 2 /\ regs.device = 240 /\ regs.command = 236
    /\ cmds = <<236, 236>> /\ portReads = 512
    /\ disk_table_used = 2 /\ disk_table[2].disk = 1

\* a <= b for two pairs
Leq32(a, b) == a[1] < b[1] \/ (a[1] = b[1] /\ a[2] <= b[2])

\* the duration a deadline is created for: 0 counts as 1 and a duration with
\* the sign bit set as 0x7fffffff
EffectiveDuration(d) ==
    IF d = <<0, 0>> THEN <<0, 1>>
    ELSE IF d[1] >= 32768 THEN <<32767, 65535>>
    ELSE d

\* at most d ticks have gone by since the deadline was created
WithinDuration == Leq32(tm_elapsed, EffectiveDuration(tm_dur))

\* at most d + 2^31 ticks have gone by since the deadline was created
WithinWindow == Leq32(tm_elapsed, Sum32(EffectiveDuration(tm_dur), <<32768, 0>>))

\* C19, as claimed: a deadline is reported not expired while at most d ticks
\* have gone by since its creation and expired whenever more than d ticks have.
C19_ExpiredWheneverLate ==
    (tm_pc = "tested") => (tm_expired <=> ~WithinDuration)

\* C19, amended: a deadline is reported not expired while at most d ticks have
\* gone by since its creation and expired while more than d and at most
\* d + 2^31 ticks have, whether or not the counter wrapped in between; later
\* than that, within one turn of the counter, it is reported not expired again.
C19_ExpiredInWindow ==
    (tm_pc = "tested") =>
        /\ WithinDuration => ~tm_expired
        /\ (~WithinDuration /\ WithinWindow) => tm_expired
        /\ ~WithinWindow => ~tm_expired

C19_Witness ==
    /\ tm_pc = "tested" /\ tm_expired
    /\ tm_dur = U32(0, 600) /\ tm_elapsed = U32(0, 601)
    /\ timeout = U32(0, 599) /\ timer_ticks = U32(0, 600)

\* C20: an init call made when the initialisation has been done returns at
\* once: no reset, no probe, no register access, table, count and mounts as
\* they were; the controller is reset once at most; and no two entries of the
\* table below the count name the same controller and device slot.
C20_InitOnce ==
    /\ [][(pc = "idle" /\ gogoboot_disk_init_done /\ req'.op = "init")
            => /\ pc' = "idle"
               /\ ~touched'
               /\ cmds' = <<>> /\ portReads' = 0 /\ portWrites' = 0
               /\ UNCHANGED <<regs, disk_table, disk_table_used, mounts,
                              gogoboot_disk_init_done>>]_vars
    /\ [][(regs'.ctl # regs.ctl \/ (pc' = "ti_loop" /\ pc = "idle"))
            => (~gogoboot_disk_init_done /\ gogoboot_disk_init_done')]_vars
    /\ [][gogoboot_disk_init_done => gogoboot_disk_init_done']_vars
    /\ [](\A i, j \in 1..disk_table_used :
              (i # j) => <<disk_table[i].ctrl, disk_table[i].disk>>
                            # <<disk_table[j].ctrl, disk_table[j].disk>>)

C20_Witness ==
    /\ pc = "idle" /\ req.op = "init" /\ result = "void" /\ ~touched
    /\ gogoboot_disk_init_done
    /\ disk_table_used = 1 /\ disk_table[1].disk = 1
    /\ regs.command = 236 /\ cmds = <<>>

\* C21: a read or write call with a disk index below the disk count and a
\* sector count of zero or less starts no wait, reads and writes no controller
\* register, moves no sector to or from the buffer, and returns success.
C21_NothingToTransfer ==
    /\ []((req.op \in RwOps /\ req.disknr >= 0 /\ req.disknr < disk_table_used
              /\ req.count <= 0) =>
            /\ pc \in {"rw_loop", "idle"}
            /\ (pc = "rw_loop") => result = "pending"
            /\ (pc = "idle") => result = "ok"
            /\ ~touched
            /\ chunks = <<>> /\ cmds = <<>>
            /\ nXfer = 0 /\ lastXfer = NoXfer /\ buff = 0
            /\ portReads = 0 /\ portWrites = 0
            /\ nReadyOk = 0 /\ nDrqOk = 0)
    /\ [][(req'.op \in RwOps /\ req'.disknr >= 0 /\ req'.disknr < disk_table_used'
              /\ req'.count <= 0)
            => UNCHANGED <<regs, disk_table, disk_table_used, mounts>>]_vars

C21_Witness ==
    /\ RwReturned /\ req.op = "write" /\ req.count = -1 /\ req.disknr = 0
    /\ disk_table_used = 1
    /\ result = "ok" /\ ~touched
    /\ regs.command = 236 /\ regs.nsect = 0 /\ chunks = <<>>

====
